---- MODULE Spec2Model ----
(***************************************************************************)
(* Model of the dense state-vector quantum simulator                       *)
(* (src/src/state_vector_simulation.rs, gate.rs, state_vector_init.rs).    *)
(*                                                                         *)
(* Numbers.  The code computes in f64.  The model computes exactly in the  *)
(* ring the gate set generates: a Complex<f64> is                          *)
(*     ((a + b*sqrt2) + i*(c + d*sqrt2)) / 2^k                             *)
(* with integers a, b, c, d and k >= 0, or NaN.  An f64 that is not part   *)
(* of a Complex (a probability, the renormalisation factor squared) is     *)
(*     (p + q*sqrt2) / den,  den > 0,  or NaN.                             *)
(* The renormalisation factor of measure() is a square root, which leaves  *)
(* the ring; since measure() multiplies every surviving amplitude by that  *)
(* one factor and all the others are zero, the model keeps the product of  *)
(* the factors applied so far, squared, in the field `scale` of the        *)
(* simulation: amplitudes[i] of the code is amplitudes[i] * sqrt(scale) of *)
(* the model.                                                              *)
(***************************************************************************)
EXTENDS Integers, Sequences, FiniteSets, TLC

\* ------------------------------------------------------------ integers

Abs(x) == IF x < 0 THEN -x ELSE x

RECURSIVE Pow2(_)
Pow2(e) == IF e = 0 THEN 1 ELSE 2 * Pow2(e - 1)

RECURSIVE Gcd(_, _)
Gcd(x, y) == IF y = 0 THEN Abs(x) ELSE Gcd(y, x % Abs(y))

Even(x) == x % 2 = 0

\* ------------------------------------------------------------ f64 (real)

RNaN == [nan |-> TRUE, p |-> 0, q |-> 0, den |-> 1]

\* (p + q*sqrt2)/den in lowest terms with den > 0.
RNorm(p, q, den) ==
    LET g == Gcd(Gcd(p, q), den)
        sg == IF den < 0 THEN -1 ELSE 1
    IN  [nan |-> FALSE, p |-> sg * (p \div g), q |-> sg * (q \div g),
         den |-> sg * (den \div g)]

RInt(x) == RNorm(x, 0, 1)

RFrac(x, y) == RNorm(x, 0, y)

\* Sign of P + Q*sqrt2 for integers P, Q: -1, 0 or 1.
SignSqrt2(P, Q) ==
    IF P >= 0 /\ Q >= 0 THEN (IF P = 0 /\ Q = 0 THEN 0 ELSE 1)
    ELSE IF P <= 0 /\ Q <= 0 THEN -1
    ELSE IF P > 0 THEN (IF P * P > 2 * Q * Q THEN 1 ELSE -1)
    ELSE (IF 2 * Q * Q > P * P THEN 1 ELSE -1)

RAdd(x, y) ==
    IF x.nan \/ y.nan THEN RNaN
    ELSE RNorm(x.p * y.den + y.p * x.den, x.q * y.den + y.q * x.den,
               x.den * y.den)

RMul(x, y) ==
    IF x.nan \/ y.nan THEN RNaN
    ELSE RNorm(x.p * y.p + 2 * x.q * y.q, x.p * y.q + x.q * y.p,
               x.den * y.den)

RIsZero(x) == ~x.nan /\ x.p = 0 /\ x.q = 0

\* x <= y as f64 compares: false when either side is NaN.
RLeq(x, y) ==
    /\ ~x.nan
    /\ ~y.nan
    /\ SignSqrt2(y.p * x.den - x.p * y.den, y.q * x.den - x.q * y.den) >= 0

\* x / y for y neither zero nor NaN:
\* 1/((p + q*sqrt2)/den) = den*(p - q*sqrt2)/(p*p - 2*q*q).
RDiv(x, y) ==
    IF x.nan \/ y.nan THEN RNaN
    ELSE RMul(x, RNorm(y.den * y.p, -(y.den * y.q), y.p * y.p - 2 * y.q * y.q))

\* ------------------------------------------------------------ Complex<f64>

CNaN == [nan |-> TRUE, a |-> 0, b |-> 0, c |-> 0, d |-> 0, k |-> 0]

RECURSIVE CNorm(_, _, _, _, _)
CNorm(a, b, c, d, k) ==
    IF k > 0 /\ Even(a) /\ Even(b) /\ Even(c) /\ Even(d)
    THEN CNorm(a \div 2, b \div 2, c \div 2, d \div 2, k - 1)
    ELSE [nan |-> FALSE, a |-> a, b |-> b, c |-> c, d |-> d, k |-> k]

\* Complex::new(re, im) for integers re, im.
Complex(re, im) == CNorm(re, 0, im, 0, 0)

CZero == Complex(0, 0)

COne == Complex(1, 0)

CIsZero(x) == x = CZero

CAdd(x, y) ==
    IF x.nan \/ y.nan THEN CNaN
    ELSE LET m == IF x.k > y.k THEN x.k ELSE y.k
             fx == Pow2(m - x.k)
             fy == Pow2(m - y.k)
         IN  CNorm(fx * x.a + fy * y.a, fx * x.b + fy * y.b,
                   fx * x.c + fy * y.c, fx * x.d + fy * y.d, m)

CNeg(x) == IF x.nan THEN CNaN ELSE CNorm(-x.a, -x.b, -x.c, -x.d, x.k)

CSub(x, y) == CAdd(x, CNeg(y))

\* (re1 + i*im1)(re2 + i*im2) with
\* (a + b*sqrt2)(a' + b'*sqrt2) = (a*a' + 2*b*b') + (a*b' + b*a')*sqrt2.
CMul(x, y) ==
    IF x.nan \/ y.nan THEN CNaN
    ELSE CNorm(
        (x.a * y.a + 2 * x.b * y.b) - (x.c * y.c + 2 * x.d * y.d),
        (x.a * y.b + x.b * y.a) - (x.c * y.d + x.d * y.c),
        (x.a * y.c + 2 * x.b * y.d) + (x.c * y.a + 2 * x.d * y.b),
        (x.a * y.d + x.b * y.c) + (x.c * y.b + x.d * y.a),
        x.k + y.k)

\* Complex::norm_sqr: re*re + im*im.
CNormSqr(x) ==
    IF x.nan THEN RNaN
    ELSE RNorm(x.a * x.a + 2 * x.b * x.b + x.c * x.c + 2 * x.d * x.d,
               2 * x.a * x.b + 2 * x.c * x.d,
               Pow2(2 * x.k))

\* ------------------------------------------------------------ bits

\* 1 << n
Shl1(n) == Pow2(n)

\* x & mask != 0 for a mask with a single bit set.
BitSet(x, mask) == (x \div mask) % 2 = 1

\* x | mask for a mask with a single bit set.
BitOr(x, mask) == IF BitSet(x, mask) THEN x ELSE x + mask

\* ------------------------------------------------------------ gate.rs

INV_SQRT_2 == CNorm(0, 1, 0, 0, 1)

gate_pauli_x(amplitude0, amplitude1) == <<amplitude1, amplitude0>>

gate_pauli_y(amplitude0, amplitude1) ==
    <<CMul(Complex(0, -1), amplitude1), CMul(Complex(0, 1), amplitude0)>>

gate_pauli_z(amplitude0, amplitude1) == <<amplitude0, CNeg(amplitude1)>>

\* hadamard without the factor INV_SQRT_2.
gate_hadamard_unscaled(amplitude0, amplitude1) ==
    <<CAdd(amplitude0, amplitude1), CSub(amplitude0, amplitude1)>>

gate_hadamard(amplitude0, amplitude1) ==
    <<CMul(INV_SQRT_2, CAdd(amplitude0, amplitude1)),
      CMul(INV_SQRT_2, CSub(amplitude0, amplitude1))>>

gate_s(amplitude0, amplitude1) == <<amplitude0, CMul(Complex(0, 1), amplitude1)>>

gate_t(amplitude0, amplitude1) ==
    <<amplitude0, CMul(CNorm(0, 1, 0, 1, 1), amplitude1)>>

\* cnot with control and target exchanged: amplitude10 and amplitude11 swap.
gate_cnot_controls_swapped(amplitude00, amplitude01, amplitude10, amplitude11) ==
    <<amplitude00, amplitude01, amplitude11, amplitude10>>

gate_cnot(amplitude00, amplitude01, amplitude10, amplitude11) ==
    <<amplitude00, amplitude11, amplitude10, amplitude01>>

gate_cz(amplitude00, amplitude01, amplitude10, amplitude11) ==
    <<amplitude00, amplitude01, amplitude10, CNeg(amplitude11)>>

gate_swap(amplitude00, amplitude01, amplitude10, amplitude11) ==
    <<amplitude00, amplitude10, amplitude01, amplitude11>>

gate_toffoli(amplitude000, amplitude001, amplitude010, amplitude011, amplitude100, amplitude101, amplitude110, amplitude111) ==
    <<amplitude000, amplitude001, amplitude010, amplitude111,
      amplitude100, amplitude101, amplitude110, amplitude011>>

OneQubitGates == {"pauli_x", "pauli_y", "pauli_z", "hadamard", "s", "t"}

TwoQubitGates == {"cnot", "cz", "swap"}

\* The function value passed to apply_one_qubit_gate, by name.
one_qubit_gate(name, a0, a1) ==
    CASE name = "pauli_x" -> gate_pauli_x(a0, a1)
      [] name = "pauli_y" -> gate_pauli_y(a0, a1)
      [] name = "pauli_z" -> gate_pauli_z(a0, a1)
      [] name = "hadamard" -> gate_hadamard(a0, a1)
      [] name = "s" -> gate_s(a0, a1)
      [] name = "t" -> gate_t(a0, a1)

\* The function value passed to apply_two_qubit_gate, by name.
two_qubit_gate(name, a00, a01, a10, a11) ==
    CASE name = "cnot" -> gate_cnot(a00, a01, a10, a11)
      [] name = "cz" -> gate_cz(a00, a01, a10, a11)
      [] name = "swap" -> gate_swap(a00, a01, a10, a11)

\* ------------------------------------------------------------ state_vector_init.rs

ZERO_QUBIT == <<Complex(1, 0), Complex(0, 0)>>

ONE_QUBIT == <<Complex(0, 0), Complex(1, 0)>>

ground_state_qubits(n) == [j \in 1..n |-> ZERO_QUBIT]

\* The inner loop of get_amplitudes: the product over qubits j..n of the
\* component of qubit j that bit j of i selects (qubit j is qubits[j + 1]).
RECURSIVE AmplitudeProduct(_, _, _, _)
AmplitudeProduct(qubits, i, j, amplitude) ==
    IF j = Len(qubits) THEN amplitude
    ELSE AmplitudeProduct(qubits, i, j + 1,
            CMul(amplitude, IF BitSet(i, Shl1(j)) THEN qubits[j + 1][2]
                                                   ELSE qubits[j + 1][1]))

\* get_amplitudes with state_count = qubits.len(): one amplitude for each
\* qubit.
get_amplitudes_one_per_qubit(qubits) ==
    [i \in 0..(Len(qubits) - 1) |->
        AmplitudeProduct(qubits, i, 0, Complex(1, 0))]

get_amplitudes(qubits) ==
    [i \in 0..(Pow2(Len(qubits)) - 1) |->
        AmplitudeProduct(qubits, i, 0, Complex(1, 0))]

get_ground_state_amplitudes(n) == get_amplitudes(ground_state_qubits(n))

\* ------------------------------------------------------------ state_vector_simulation.rs

MAX_QUBIT_COUNT == 32

\* What a call hands back: the simulation after it, how it ended ("ok" or the
\* panic), the Vec<bool> it returned and the basis index _choose_state chose
\* (-1 when the call draws none).
Return(sim, err, outcome, index) ==
    [sim |-> sim, err |-> err, outcome |-> outcome, index |-> index]

Ok(sim) == Return(sim, "ok", <<>>, -1)

\* assert!(qubit_number < self.qubit_count, ...) fails: nothing was written.
InvalidQubitIndex(sim) == Return(sim, "InvalidQubitIndex", <<>>, -1)

\* self.amplitudes[i] with i >= len: the slice index panics.
IndexOutOfBounds(sim) == Return(sim, "IndexOutOfBounds", <<>>, -1)

AmpLen(amplitudes) == Cardinality(DOMAIN amplitudes)

\* reset that also builds the rng anew from the seed.
reset_reseeds(sim) ==
    [sim EXCEPT !.amplitudes = get_ground_state_amplitudes(sim.qubit_count),
                !.scale = RInt(1),
                !.rng = 0]

QuantumSimulation_reset(sim) ==
    [sim EXCEPT !.amplitudes = get_ground_state_amplitudes(sim.qubit_count),
                !.scale = RInt(1)]

\* QuantumSimulation::new for qubit_count <= MAX_QUBIT_COUNT; the rng is the
\* number of values drawn from the seeded generator so far.
QuantumSimulation_new(qubit_count) ==
    QuantumSimulation_reset(
        [qubit_count |-> qubit_count, amplitudes |-> <<>>, scale |-> RInt(1),
         rng |-> 0])

\* amplitude.norm_sqr() of amplitudes[i].
NormSqr(sim, i) == RMul(CNormSqr(sim.amplitudes[i]), sim.scale)

probabilities_of(sim) ==
    [i \in DOMAIN sim.amplitudes |-> NormSqr(sim, i)]

\* The for loop of _choose_state without its break: state_index is the last
\* index at which the comparison succeeds.
RECURSIVE choose_loop_no_break(_, _, _, _)
choose_loop_no_break(probabilities, random_number, i, accumulated_probability) ==
    IF i = AmpLen(probabilities) THEN 0
    ELSE LET acc == RAdd(accumulated_probability, probabilities[i])
             later == choose_loop_no_break(probabilities, random_number, i + 1, acc)
         IN  IF later # 0 THEN later
             ELSE IF RLeq(random_number, acc) THEN i ELSE 0

\* The for loop of _choose_state from index i on; state_index stays 0 when
\* no comparison succeeds.
RECURSIVE choose_loop(_, _, _, _)
choose_loop(probabilities, random_number, i, accumulated_probability) ==
    IF i = AmpLen(probabilities) THEN 0
    ELSE LET acc == RAdd(accumulated_probability, probabilities[i])
         IN  IF RLeq(random_number, acc) THEN i
             ELSE choose_loop(probabilities, random_number, i + 1, acc)

choose_index(probabilities, random_number) ==
    choose_loop(probabilities, random_number, 0, RInt(0))

\* _choose_state with the value self.rng.random() returned.
choose_state(sim, random_number) ==
    choose_index(probabilities_of(sim), random_number)

RECURSIVE one_qubit_loop(_, _, _, _)
one_qubit_loop(amplitudes, name, mask, i0) ==
    IF i0 = AmpLen(amplitudes) THEN amplitudes
    ELSE IF BitSet(i0, mask) THEN one_qubit_loop(amplitudes, name, mask, i0 + 1)
    ELSE LET i1 == i0 + mask
             g == one_qubit_gate(name, amplitudes[i0], amplitudes[i1])
         IN  one_qubit_loop([amplitudes EXCEPT ![i0] = g[1], ![i1] = g[2]],
                            name, mask, i0 + 1)

apply_one_qubit_gate(sim, name, qubit_number) ==
    IF ~(qubit_number < sim.qubit_count) THEN InvalidQubitIndex(sim)
    ELSE Ok([sim EXCEPT !.amplitudes =
                one_qubit_loop(@, name, Shl1(qubit_number), 0)])

RECURSIVE two_qubit_loop(_, _, _, _, _)
two_qubit_loop(amplitudes, name, mask01, mask10, i00) ==
    IF i00 = AmpLen(amplitudes) THEN amplitudes
    ELSE IF BitSet(i00, mask01) \/ BitSet(i00, mask10)
    THEN two_qubit_loop(amplitudes, name, mask01, mask10, i00 + 1)
    ELSE LET mask11 == BitOr(mask01, mask10)
             i01 == i00 + mask01
             i10 == i00 + mask10
             i11 == i00 + mask11
             g == two_qubit_gate(name, amplitudes[i00], amplitudes[i01],
                                 amplitudes[i10], amplitudes[i11])
         IN  two_qubit_loop(
                 [amplitudes EXCEPT ![i00] = g[1], ![i01] = g[2],
                                    ![i10] = g[3], ![i11] = g[4]],
                 name, mask01, mask10, i00 + 1)

\* apply_two_qubit_gate with mask01 taken from qubit_number1 and mask10 from
\* qubit_number0: the second-listed target is the low bit of the tuple.
apply_two_qubit_gate_masks_exchanged(sim, name, qubit_number0, qubit_number1) ==
    IF ~(qubit_number0 < sim.qubit_count /\ qubit_number1 < sim.qubit_count)
    THEN InvalidQubitIndex(sim)
    ELSE Ok([sim EXCEPT !.amplitudes =
                two_qubit_loop(@, name, Shl1(qubit_number1),
                               Shl1(qubit_number0), 0)])

apply_two_qubit_gate(sim, name, qubit_number0, qubit_number1) ==
    IF ~(qubit_number0 < sim.qubit_count /\ qubit_number1 < sim.qubit_count)
    THEN InvalidQubitIndex(sim)
    ELSE Ok([sim EXCEPT !.amplitudes =
                two_qubit_loop(@, name, Shl1(qubit_number0),
                               Shl1(qubit_number1), 0)])

RECURSIVE three_qubit_loop(_, _, _, _, _)
three_qubit_loop(amplitudes, mask001, mask010, mask100, i000) ==
    IF i000 = AmpLen(amplitudes) THEN amplitudes
    ELSE IF BitSet(i000, mask001) \/ BitSet(i000, mask010)
            \/ BitSet(i000, mask100)
    THEN three_qubit_loop(amplitudes, mask001, mask010, mask100, i000 + 1)
    ELSE LET mask011 == BitOr(mask001, mask010)
             mask101 == BitOr(mask001, mask100)
             mask110 == BitOr(mask010, mask100)
             mask111 == BitOr(mask011, mask100)
             i001 == i000 + mask001
             i010 == i000 + mask010
             i011 == i000 + mask011
             i100 == i000 + mask100
             i101 == i000 + mask101
             i110 == i000 + mask110
             i111 == i000 + mask111
             g == gate_toffoli(amplitudes[i000], amplitudes[i001],
                               amplitudes[i010], amplitudes[i011],
                               amplitudes[i100], amplitudes[i101],
                               amplitudes[i110], amplitudes[i111])
         IN  three_qubit_loop(
                 [amplitudes EXCEPT ![i000] = g[1], ![i001] = g[2],
                                    ![i010] = g[3], ![i011] = g[4],
                                    ![i100] = g[5], ![i101] = g[6],
                                    ![i110] = g[7], ![i111] = g[8]],
                 mask001, mask010, mask100, i000 + 1)

\* apply_three_qubit_gate; toffoli is the only gate passed to it.
apply_three_qubit_gate(sim, qubit_number0, qubit_number1, qubit_number2) ==
    IF ~(/\ qubit_number0 < sim.qubit_count
         /\ qubit_number1 < sim.qubit_count
         /\ qubit_number2 < sim.qubit_count)
    THEN InvalidQubitIndex(sim)
    ELSE Ok([sim EXCEPT !.amplitudes =
                three_qubit_loop(@, Shl1(qubit_number0), Shl1(qubit_number1),
                                 Shl1(qubit_number2), 0)])

\* measured_state_index & (1 << qubit_number) > 0
MeasuredBit(index, qubit_number) == BitSet(index, Shl1(qubit_number))

\* measure_all calling _choose_state inside its loop, once for each qubit.
measure_all_draws_per_qubit(sim, random_number) ==
    LET measured_state_index == choose_state(sim, random_number)
        measured_states ==
            [j \in 1..sim.qubit_count |->
                MeasuredBit(measured_state_index, j - 1)]
        qubits ==
            [j \in 1..sim.qubit_count |->
                IF measured_states[j] THEN ONE_QUBIT ELSE ZERO_QUBIT]
    IN  Return([sim EXCEPT !.amplitudes = get_amplitudes(qubits),
                           !.scale = RInt(1),
                           !.rng = @ + sim.qubit_count],
               "ok", measured_states, measured_state_index)

\* measure_all without its last assignment to self.amplitudes: the values
\* are reported and the vector is left as it was.
measure_all_keeps_vector(sim, random_number) ==
    LET measured_state_index == choose_state(sim, random_number)
        measured_states ==
            [j \in 1..sim.qubit_count |->
                MeasuredBit(measured_state_index, j - 1)]
    IN  Return([sim EXCEPT !.rng = @ + 1],
               "ok", measured_states, measured_state_index)

\* measure_all with the value the rng returned.  Qubit j is element j + 1 of
\* the sequences.
measure_all(sim, random_number) ==
    LET measured_state_index == choose_state(sim, random_number)
        measured_states ==
            [j \in 1..sim.qubit_count |->
                MeasuredBit(measured_state_index, j - 1)]
        qubits ==
            [j \in 1..sim.qubit_count |->
                IF measured_states[j] THEN ONE_QUBIT ELSE ZERO_QUBIT]
    IN  Return([sim EXCEPT !.amplitudes = get_amplitudes(qubits),
                           !.scale = RInt(1),
                           !.rng = @ + 1],
               "ok", measured_states, measured_state_index)

\* The inner loop of measure for basis index i: no measured qubit's bit of i
\* differs from its measured state.
Survives(i, qubit_numbers, measured_states) ==
    \A j \in 1..Len(qubit_numbers) :
        measured_states[j] = BitSet(i, Shl1(qubit_numbers[j]))

\* accumulated_probability with the addition moved above the test of the
\* measured values: the sum over the whole vector.
RECURSIVE whole_probability(_, _, _, _)
whole_probability(sim, qubit_numbers, measured_states, i) ==
    IF i = AmpLen(sim.amplitudes) THEN RInt(0)
    ELSE RAdd(NormSqr(sim, i),
              whole_probability(sim, qubit_numbers, measured_states, i + 1))

\* accumulated_probability of measure: the sum, in index order from i on, of
\* norm_sqr over the amplitudes that survive.
RECURSIVE surviving_probability(_, _, _, _)
surviving_probability(sim, qubit_numbers, measured_states, i) ==
    IF i = AmpLen(sim.amplitudes) THEN RInt(0)
    ELSE RAdd(IF Survives(i, qubit_numbers, measured_states)
                 THEN NormSqr(sim, i) ELSE RInt(0),
              surviving_probability(sim, qubit_numbers, measured_states, i + 1))

\* measure reading the bit at the position in qubit_numbers where it should
\* read the bit of the qubit number.
measure_by_position(sim, qubit_numbers, random_number) ==
    IF \E j \in 1..Len(qubit_numbers) : ~(qubit_numbers[j] < sim.qubit_count)
    THEN InvalidQubitIndex(sim)
    ELSE
    LET measured_state_index == choose_state(sim, random_number)
        measured_states ==
            [j \in 1..Len(qubit_numbers) |->
                MeasuredBit(measured_state_index, j - 1)]
        accumulated_probability ==
            surviving_probability(sim, qubit_numbers, measured_states, 0)
        undefined_factor ==
            accumulated_probability.nan \/ RIsZero(accumulated_probability)
    IN  Return(
            [sim EXCEPT
                !.amplitudes =
                    [i \in DOMAIN @ |->
                        IF ~Survives(i, qubit_numbers, measured_states)
                        THEN Complex(0, 0)
                        ELSE IF undefined_factor THEN CNaN
                        ELSE @[i]],
                !.scale =
                    IF undefined_factor THEN @
                    ELSE RMul(RDiv(RInt(1), accumulated_probability), @),
                !.rng = @ + 1],
            "ok", measured_states, measured_state_index)

\* measure calling _choose_state above the loop of assertions: the rng
\* has advanced when the assertion fails.
measure_draws_first(sim, qubit_numbers, random_number) ==
    IF \E j \in 1..Len(qubit_numbers) : ~(qubit_numbers[j] < sim.qubit_count)
    THEN InvalidQubitIndex([sim EXCEPT !.rng = @ + 1])
    ELSE
    LET measured_state_index == choose_state(sim, random_number)
        measured_states ==
            [j \in 1..Len(qubit_numbers) |->
                MeasuredBit(measured_state_index, qubit_numbers[j])]
        accumulated_probability ==
            surviving_probability(sim, qubit_numbers, measured_states, 0)
        undefined_factor ==
            accumulated_probability.nan \/ RIsZero(accumulated_probability)
    IN  Return(
            [sim EXCEPT
                !.amplitudes =
                    [i \in DOMAIN @ |->
                        IF ~Survives(i, qubit_numbers, measured_states)
                        THEN Complex(0, 0)
                        ELSE IF undefined_factor THEN CNaN
                        ELSE @[i]],
                !.scale =
                    IF undefined_factor THEN @
                    ELSE RMul(RDiv(RInt(1), accumulated_probability), @),
                !.rng = @ + 1],
            "ok", measured_states, measured_state_index)

\* measure with the value the rng returned.  bump_amplitude_factor is
\* (1.0 / accumulated_probability).sqrt(): infinite for 0.0 and NaN for NaN,
\* and either, multiplied into the amplitudes that survive (all 0.0 when the
\* sum is 0.0), leaves NaN; otherwise its square goes into scale.
measure(sim, qubit_numbers, random_number) ==
    IF \E j \in 1..Len(qubit_numbers) : ~(qubit_numbers[j] < sim.qubit_count)
    THEN InvalidQubitIndex(sim)
    ELSE
    LET measured_state_index == choose_state(sim, random_number)
        measured_states ==
            [j \in 1..Len(qubit_numbers) |->
                MeasuredBit(measured_state_index, qubit_numbers[j])]
        accumulated_probability ==
            surviving_probability(sim, qubit_numbers, measured_states, 0)
        undefined_factor ==
            accumulated_probability.nan \/ RIsZero(accumulated_probability)
    IN  Return(
            [sim EXCEPT
                !.amplitudes =
                    [i \in DOMAIN @ |->
                        IF ~Survives(i, qubit_numbers, measured_states)
                        THEN Complex(0, 0)
                        ELSE IF undefined_factor THEN CNaN
                        ELSE @[i]],
                !.scale =
                    IF undefined_factor THEN @
                    ELSE RMul(RDiv(RInt(1), accumulated_probability), @),
                !.rng = @ + 1],
            "ok", measured_states, measured_state_index)

\* The loop of apply_u_f without the temporary a: amplitudes[i1] is
\* assigned the value amplitudes[i0] has just been given.
RECURSIVE u_f_loop_copies(_, _, _, _, _)
u_f_loop_copies(amplitudes, f, mask_x, mask_y, i0) ==
    IF i0 = AmpLen(amplitudes) THEN [amplitudes |-> amplitudes, err |-> "ok"]
    ELSE IF BitSet(i0, mask_y)
    THEN u_f_loop_copies(amplitudes, f, mask_x, mask_y, i0 + 1)
    ELSE LET x == [j \in 1..Len(mask_x) |-> BitSet(i0, mask_x[j])]
             i1 == BitOr(i0, mask_y)
         IN  IF x \notin f
             THEN u_f_loop_copies(amplitudes, f, mask_x, mask_y, i0 + 1)
             ELSE IF ~(i1 < AmpLen(amplitudes))
             THEN [amplitudes |-> amplitudes, err |-> "IndexOutOfBounds"]
             ELSE u_f_loop_copies([amplitudes EXCEPT ![i0] = amplitudes[i1]],
                                  f, mask_x, mask_y, i0 + 1)

\* The loop of apply_u_f from i0 on.  f is the set of inputs x that f maps
\* to true; mask_x[j + 1] is the mask of input_qubits[j].
RECURSIVE u_f_loop(_, _, _, _, _)
u_f_loop(amplitudes, f, mask_x, mask_y, i0) ==
    IF i0 = AmpLen(amplitudes) THEN [amplitudes |-> amplitudes, err |-> "ok"]
    ELSE IF BitSet(i0, mask_y) THEN u_f_loop(amplitudes, f, mask_x, mask_y, i0 + 1)
    ELSE LET x == [j \in 1..Len(mask_x) |-> BitSet(i0, mask_x[j])]
             i1 == BitOr(i0, mask_y)
         IN  IF x \notin f THEN u_f_loop(amplitudes, f, mask_x, mask_y, i0 + 1)
             ELSE IF ~(i1 < AmpLen(amplitudes))
             THEN [amplitudes |-> amplitudes, err |-> "IndexOutOfBounds"]
             ELSE u_f_loop([amplitudes EXCEPT ![i0] = amplitudes[i1],
                                               ![i1] = amplitudes[i0]],
                           f, mask_x, mask_y, i0 + 1)

apply_u_f(sim, f, input_qubits, answer_qubit) ==
    LET mask_x == [j \in 1..Len(input_qubits) |-> Shl1(input_qubits[j])]
        mask_y == Shl1(answer_qubit)
        done == u_f_loop(sim.amplitudes, f, mask_x, mask_y, 0)
    IN  Return([sim EXCEPT !.amplitudes = done.amplitudes], done.err, <<>>, -1)

\* The methods of impl Simulation for QuantumSimulation that only forward.
QuantumSimulation_pauli_x(sim, qubit_number) ==
    apply_one_qubit_gate(sim, "pauli_x", qubit_number)

QuantumSimulation_pauli_y(sim, qubit_number) ==
    apply_one_qubit_gate(sim, "pauli_y", qubit_number)

QuantumSimulation_pauli_z(sim, qubit_number) ==
    apply_one_qubit_gate(sim, "pauli_z", qubit_number)

QuantumSimulation_hadamard(sim, qubit_number) ==
    apply_one_qubit_gate(sim, "hadamard", qubit_number)

QuantumSimulation_s(sim, qubit_number) ==
    apply_one_qubit_gate(sim, "s", qubit_number)

QuantumSimulation_t(sim, qubit_number) ==
    apply_one_qubit_gate(sim, "t", qubit_number)

QuantumSimulation_cnot(sim, control_qubit_number, target_qubit_number) ==
    apply_two_qubit_gate(sim, "cnot", control_qubit_number, target_qubit_number)

QuantumSimulation_cz(sim, control_qubit_number, target_qubit_number) ==
    apply_two_qubit_gate(sim, "cz", control_qubit_number, target_qubit_number)

QuantumSimulation_swap(sim, qubit_number0, qubit_number1) ==
    apply_two_qubit_gate(sim, "swap", qubit_number0, qubit_number1)

QuantumSimulation_toffoli(sim, control_qubit_number0, control_qubit_number1, target_qubit_number) ==
    apply_three_qubit_gate(sim, control_qubit_number0, control_qubit_number1,
                           target_qubit_number)

\* ------------------------------------------------------------ parity.rs

\* The closure create_u_f(f) returns, applied to four amplitudes.  f is the
\* set of the inputs <<x>> that the fn(bool) -> bool maps to true.
create_u_f(f, amplitude00, amplitude01, amplitude10, amplitude11) ==
    LET new_amplitude1 ==
            IF <<FALSE>> \in f THEN <<amplitude10, amplitude11>>
                               ELSE <<amplitude11, amplitude10>>
        new_amplitude0 ==
            IF <<TRUE>> \in f THEN <<amplitude01, amplitude00>>
                              ELSE <<amplitude00, amplitude01>>
    IN  <<new_amplitude0[1], new_amplitude0[2],
          new_amplitude1[1], new_amplitude1[2]>>

\* ------------------------------------------------------------ simulation.rs

\* The instance of simulation.rs has the fields of the one of
\* state_vector_simulation.rs; the model keeps it in the same record, scale
\* 1 since its measure is not called here.

\* QuantumSimulation::new of simulation.rs for qubit_count <= MAX_QUBIT_COUNT.
simulation_new(qubit_count) ==
    [qubit_count |-> qubit_count,
     amplitudes |-> get_ground_state_amplitudes(qubit_count),
     scale |-> RInt(1), rng |-> 0]

simulation_init_ground_state(sim) ==
    [sim EXCEPT !.amplitudes = get_ground_state_amplitudes(sim.qubit_count)]

\* The loop of apply_one_qubit_gate of simulation.rs is the loop of
\* state_vector_simulation.rs, and the gate functions it is passed are those
\* of gate.rs.
simulation_apply_one_qubit_gate(sim, name, qubit_number) ==
    IF ~(qubit_number < sim.qubit_count) THEN InvalidQubitIndex(sim)
    ELSE Ok([sim EXCEPT !.amplitudes =
                one_qubit_loop(@, name, Shl1(qubit_number), 0)])

\* The function value passed to apply_two_qubit_gate of simulation.rs: a
\* gate by name, or the closure of create_u_f(f) for name "u_f".
simulation_two_qubit_gate(gate, a00, a01, a10, a11) ==
    IF gate.name = "u_f" THEN create_u_f(gate.f, a00, a01, a10, a11)
    ELSE two_qubit_gate(gate.name, a00, a01, a10, a11)

RECURSIVE simulation_two_qubit_loop(_, _, _, _, _)
simulation_two_qubit_loop(amplitudes, gate, mask01, mask10, i00) ==
    IF i00 = AmpLen(amplitudes) THEN amplitudes
    ELSE IF BitSet(i00, mask01) \/ BitSet(i00, mask10)
    THEN simulation_two_qubit_loop(amplitudes, gate, mask01, mask10, i00 + 1)
    ELSE LET mask11 == BitOr(mask01, mask10)
             i01 == i00 + mask01
             i10 == i00 + mask10
             i11 == i00 + mask11
             g == simulation_two_qubit_gate(gate, amplitudes[i00],
                                            amplitudes[i01], amplitudes[i10],
                                            amplitudes[i11])
         IN  simulation_two_qubit_loop(
                 [amplitudes EXCEPT ![i00] = g[1], ![i01] = g[2],
                                    ![i10] = g[3], ![i11] = g[4]],
                 gate, mask01, mask10, i00 + 1)

simulation_apply_two_qubit_gate(sim, gate, qubit_number0, qubit_number1) ==
    IF ~(qubit_number0 < sim.qubit_count /\ qubit_number1 < sim.qubit_count)
    THEN InvalidQubitIndex(sim)
    ELSE Ok([sim EXCEPT !.amplitudes =
                simulation_two_qubit_loop(@, gate, Shl1(qubit_number0),
                                          Shl1(qubit_number1), 0)])

simulation_cnot(sim, control_qubit_number, target_qubit_number) ==
    simulation_apply_two_qubit_gate(sim, [name |-> "cnot", f |-> {}],
                                    control_qubit_number, target_qubit_number)

simulation_apply_u_f(sim, f, qubit_number0, qubit_number1) ==
    simulation_apply_two_qubit_gate(sim, [name |-> "u_f", f |-> f],
                                    qubit_number0, qubit_number1)

\* measure_all of simulation.rs with the value the rng returned; its
\* _choose_state is the one of state_vector_simulation.rs, line for line.
simulation_measure_all(sim, random_number) ==
    LET measured_state_index == choose_state(sim, random_number)
        measured_states ==
            [j \in 1..sim.qubit_count |->
                MeasuredBit(measured_state_index, j - 1)]
        qubits ==
            [j \in 1..sim.qubit_count |->
                IF measured_states[j] THEN ONE_QUBIT ELSE ZERO_QUBIT]
    IN  Return([sim EXCEPT !.amplitudes = get_amplitudes(qubits),
                           !.rng = @ + 1],
               "ok", measured_states, measured_state_index)

\* ------------------------------------------------------------ lib.rs

lib_pauli_x_gate(amplitude0, amplitude1) == <<amplitude1, amplitude0>>

lib_cnot_gate(amplitude00, amplitude01, amplitude10, amplitude11) ==
    <<amplitude00, amplitude01, amplitude11, amplitude10>>

RECURSIVE lib_one_qubit_loop(_, _, _)
lib_one_qubit_loop(amplitudes, mask, i0) ==
    IF i0 = AmpLen(amplitudes) THEN amplitudes
    ELSE IF BitSet(i0, mask) THEN lib_one_qubit_loop(amplitudes, mask, i0 + 1)
    ELSE LET i1 == i0 + mask
             g == lib_pauli_x_gate(amplitudes[i0], amplitudes[i1])
         IN  lib_one_qubit_loop([amplitudes EXCEPT ![i0] = g[1], ![i1] = g[2]],
                                mask, i0 + 1)

\* pauli_x of lib.rs: apply_one_qubit_gate(pauli_x_gate, qubit_number).
lib_pauli_x(sim, qubit_number) ==
    IF ~(qubit_number < sim.qubit_count) THEN InvalidQubitIndex(sim)
    ELSE Ok([sim EXCEPT !.amplitudes =
                lib_one_qubit_loop(@, Shl1(qubit_number), 0)])

RECURSIVE lib_two_qubit_loop(_, _, _, _)
lib_two_qubit_loop(amplitudes, mask01, mask10, i00) ==
    IF i00 = AmpLen(amplitudes) THEN amplitudes
    ELSE IF BitSet(i00, mask01) \/ BitSet(i00, mask10)
    THEN lib_two_qubit_loop(amplitudes, mask01, mask10, i00 + 1)
    ELSE LET mask11 == BitOr(mask01, mask10)
             i01 == i00 + mask01
             i10 == i00 + mask10
             i11 == i00 + mask11
             g == lib_cnot_gate(amplitudes[i00], amplitudes[i01],
                                amplitudes[i10], amplitudes[i11])
         IN  lib_two_qubit_loop(
                 [amplitudes EXCEPT ![i00] = g[1], ![i01] = g[2],
                                    ![i10] = g[3], ![i11] = g[4]],
                 mask01, mask10, i00 + 1)

\* cnot of lib.rs: apply_two_qubit_gate(cnot_gate, control_qubit_number,
\* target_qubit_number).
lib_cnot(sim, control_qubit_number, target_qubit_number) ==
    IF ~(control_qubit_number < sim.qubit_count
         /\ target_qubit_number < sim.qubit_count)
    THEN InvalidQubitIndex(sim)
    ELSE Ok([sim EXCEPT !.amplitudes =
                lib_two_qubit_loop(@, Shl1(control_qubit_number),
                                   Shl1(target_qubit_number), 0)])

\* ------------------------------------------------------------ bounds and inputs

\* Calls made on one instance.
MaxOps == 2

\* The rng's values are the multiples of 1/RDen in [0, 1).
RDen == 4

\* Longest qubit list passed to measure.
MaxMeasured == 2

\* Largest arity N of the function passed to apply_u_f.
MaxOracleInputs == 1

\* The qubit count of the repository's own test of the simulation; the model
\* constructs instances of every qubit count up to it.
TEST_QUBIT_COUNT == 3

QubitCounts == 0..TEST_QUBIT_COUNT

\* self.rng.random::<f64>(): a value in [0, 1), 0.0 included.
Draws == {RFrac(j, RDen) : j \in 0..(RDen - 1)}

\* Qubit numbers a caller passes: the valid ones and the first invalid one.
QubitArgs(sim) == 0..sim.qubit_count

QubitLists(sim) ==
    UNION {[1..m -> QubitArgs(sim)] : m \in 0..MaxMeasured}

\* [bool; N]
BoolArrays(N) == [1..N -> BOOLEAN]

\* ------------------------------------------------------------ one instance

VARIABLES
    sim,      \* the QuantumSimulation
    status,   \* "idle" between calls, "returned" when a call has just
              \* returned, "panicked" once a call has panicked
    last,     \* the call that has just ended: its name, arguments and what
              \* it handed back
    ops,      \* calls made so far
    valid     \* new was asked for 1..MAX_QUBIT_COUNT qubits and every call
              \* so far had distinct qubit indices below qubit_count

\* _choose_state alone, on a vector of probabilities and a drawn number.
VARIABLES
    probabilities,   \* the Vec<f64> of _choose_state
    drawn_number,    \* the value the rng returned
    state_index,     \* what _choose_state returned, -1 before it ran
    choose_pc        \* "off", "call" or "done"

\* The three instances of tests::measurements_are_consistent.
VARIABLES
    simulation012,
    simulation1,
    simulation02,
    measurements,    \* what the three measurements of the run returned
    cross_pc,        \* "off", "program" or "measured"
    runs,            \* measurements made on each instance
    calls,           \* reset and gate calls made on each instance
    reset_in_run     \* reset() was called since the last measurement

\* One instance run through a program: a fixed sequence of calls.
VARIABLES
    program,       \* the program: its kind, its calls and what it was built from
    program_pc,    \* the position in program.calls of the next call
    program_sim,   \* the QuantumSimulation
    marked,        \* the instance as the call at position program.mark found it
    results,       \* what the last measurement returned
    earlier_results,   \* what the measurement before the last one returned
    trials         \* runs of the program's loop that are over

mainVars == <<sim, status, last, ops, valid>>

programVars ==
    <<program, program_pc, program_sim, marked, results, earlier_results,
      trials>>

chooseVars == <<probabilities, drawn_number, state_index, choose_pc>>

crossVars ==
    <<simulation012, simulation1, simulation02, measurements, cross_pc, runs,
      calls, reset_in_run>>

vars == <<mainVars, chooseVars, crossVars, programVars>>

\* The variables of a specification that is not running.
MainOff ==
    /\ sim = QuantumSimulation_new(0)
    /\ status = "off"
    /\ last = <<>>
    /\ ops = 0
    /\ valid = TRUE

ChooseOff ==
    /\ probabilities = <<>>
    /\ drawn_number = RNaN
    /\ state_index = -1
    /\ choose_pc = "off"

CrossOff ==
    /\ simulation012 = QuantumSimulation_new(0)
    /\ simulation1 = QuantumSimulation_new(0)
    /\ simulation02 = QuantumSimulation_new(0)
    /\ measurements = <<>>
    /\ cross_pc = "off"
    /\ runs = 0
    /\ calls = 0
    /\ reset_in_run = FALSE

ProgramsOff ==
    /\ program = <<>>
    /\ program_pc = 0
    /\ program_sim = QuantumSimulation_new(0)
    /\ marked = QuantumSimulation_new(0)
    /\ results = <<>>
    /\ earlier_results = <<>>
    /\ trials = 0

\* before is the simulation as the call found it.
Call(op, args, f, random_number, before, ret) ==
    [op |-> op, args |-> args, f |-> f, random_number |-> random_number,
     before |-> before,
     err |-> ret.err, outcome |-> ret.outcome, index |-> ret.index]

NoCall(before) == Call("none", <<>>, {}, RNaN, before, Ok(before))

\* The qubit counts asked of QuantumSimulation::new: the small ones and one
\* above MAX_QUBIT_COUNT.
RequestedCounts == QubitCounts \cup {MAX_QUBIT_COUNT + 1}

\* The assertion of new failed: no QuantumSimulation was built.
NoSimulation ==
    [qubit_count |-> 0, amplitudes |-> <<>>, scale |-> RInt(1), rng |-> 0]

\* The call QuantumSimulation::new(qubit_count, rnd_seed): the assertion,
\* then the instance after reset().
construct(qubit_count) ==
    IF ~(qubit_count <= MAX_QUBIT_COUNT)
    THEN Return(NoSimulation, "QubitCountExceeded", <<>>, -1)
    ELSE Ok(QuantumSimulation_new(qubit_count))

Init ==
    /\ \E qubit_count \in RequestedCounts :
          LET ret == construct(qubit_count)
          IN  /\ sim = ret.sim
              /\ status = IF ret.err = "ok" THEN "idle" ELSE "panicked"
              /\ last = Call("new", <<qubit_count>>, {}, RNaN, ret.sim, ret)
              /\ valid = (1 <= qubit_count /\ qubit_count <= MAX_QUBIT_COUNT)
    /\ ops = 0
    /\ ChooseOff
    /\ CrossOff
    /\ ProgramsOff

\* The arguments are what the interface asks for: qubit indices below
\* qubit_count and, except for the list of measure, no index twice.
ValidArguments(x, op, args) ==
    /\ \A j \in 1..Len(args) : args[j] < x.qubit_count
    /\ op # "measure" =>
          \A j, m \in 1..Len(args) : j # m => args[j] # args[m]

\* A call returns or panics; a panic unwinds the caller.
Finish(op, args, f, random_number, ret) ==
    /\ status = "idle"
    /\ ops < MaxOps
    /\ sim' = ret.sim
    /\ status' = IF ret.err = "ok" THEN "returned" ELSE "panicked"
    /\ last' = Call(op, args, f, random_number, sim, ret)
    /\ ops' = ops + 1
    /\ valid' = (valid /\ ValidArguments(sim, op, args))
    /\ UNCHANGED <<chooseVars, crossVars, programVars>>

\* The caller is done with what the call returned and goes on.
Continue ==
    /\ status = "returned"
    /\ status' = "idle"
    /\ last' = NoCall(sim)
    /\ UNCHANGED <<sim, ops, valid, chooseVars, crossVars, programVars>>

Reset == Finish("reset", <<>>, {}, RNaN, Ok(QuantumSimulation_reset(sim)))

MeasureAll ==
    \E r \in Draws : Finish("measure_all", <<>>, {}, r, measure_all(sim, r))

Measure ==
    \E qs \in QubitLists(sim), r \in Draws :
        Finish("measure", qs, {}, r, measure(sim, qs, r))

PauliX ==
    \E q \in QubitArgs(sim) :
        Finish("pauli_x", <<q>>, {}, RNaN, QuantumSimulation_pauli_x(sim, q))

PauliY ==
    \E q \in QubitArgs(sim) :
        Finish("pauli_y", <<q>>, {}, RNaN, QuantumSimulation_pauli_y(sim, q))

PauliZ ==
    \E q \in QubitArgs(sim) :
        Finish("pauli_z", <<q>>, {}, RNaN, QuantumSimulation_pauli_z(sim, q))

Hadamard ==
    \E q \in QubitArgs(sim) :
        Finish("hadamard", <<q>>, {}, RNaN, QuantumSimulation_hadamard(sim, q))

SGate ==
    \E q \in QubitArgs(sim) :
        Finish("s", <<q>>, {}, RNaN, QuantumSimulation_s(sim, q))

TGate ==
    \E q \in QubitArgs(sim) :
        Finish("t", <<q>>, {}, RNaN, QuantumSimulation_t(sim, q))

Cnot ==
    \E q0, q1 \in QubitArgs(sim) :
        Finish("cnot", <<q0, q1>>, {}, RNaN, QuantumSimulation_cnot(sim, q0, q1))

Cz ==
    \E q0, q1 \in QubitArgs(sim) :
        Finish("cz", <<q0, q1>>, {}, RNaN, QuantumSimulation_cz(sim, q0, q1))

Swap ==
    \E q0, q1 \in QubitArgs(sim) :
        Finish("swap", <<q0, q1>>, {}, RNaN, QuantumSimulation_swap(sim, q0, q1))

Toffoli ==
    \E q0, q1, q2 \in QubitArgs(sim) :
        Finish("toffoli", <<q0, q1, q2>>, {}, RNaN,
               QuantumSimulation_toffoli(sim, q0, q1, q2))

ApplyUF ==
    \E N \in 1..MaxOracleInputs :
        \E f \in SUBSET BoolArrays(N), input_qubits \in [1..N -> QubitArgs(sim)],
           answer_qubit \in QubitArgs(sim) :
            Finish("apply_u_f", input_qubits \o <<answer_qubit>>, f, RNaN,
                   apply_u_f(sim, f, input_qubits, answer_qubit))

Next ==
    \/ Reset
    \/ MeasureAll
    \/ Measure
    \/ PauliX
    \/ PauliY
    \/ PauliZ
    \/ Hadamard
    \/ SGate
    \/ TGate
    \/ Cnot
    \/ Cz
    \/ Swap
    \/ Toffoli
    \/ ApplyUF
    \/ Continue

Spec == Init /\ [][Next]_vars

\* ------------------------------------------------------------ _choose_state alone

\* fn[0] + ... + fn[n - 1]
RECURSIVE RSum(_, _)
RSum(fn, n) == IF n = 0 THEN RInt(0) ELSE RAdd(RSum(fn, n - 1), fn[n - 1])

\* Largest qubit count of the vectors handed to _choose_state alone.
MaxChooseQubits == 2

\* The units a vector of probabilities adds up to.
RECURSIVE Units(_, _)
Units(v, n) == IF n = 0 THEN 0 ELSE Units(v, n - 1) + v[n - 1]

\* Vectors of probabilities in units of 1/RDen whose total is 1 or, as
\* rounding leaves it, a little below 1 (hadamard on one qubit gives
\* 0.4999999999999999 twice, total 0.9999999999999998): here one unit below.
ProbabilityVectors ==
    UNION {
        {[i \in 0..(Pow2(n) - 1) |-> RFrac(v[i], RDen)] :
            v \in {u \in [0..(Pow2(n) - 1) -> 0..RDen] :
                      Units(u, Pow2(n)) \in {RDen - 1, RDen}}} :
        n \in 1..MaxChooseQubits}

\* Values of the rng in [0, 1), fine enough to fall between such a total
\* and 1.
ChooseDraws == {RFrac(j, 2 * RDen) : j \in 0..(2 * RDen - 1)}

InitChoose ==
    /\ probabilities \in ProbabilityVectors
    /\ drawn_number \in ChooseDraws
    /\ state_index = -1
    /\ choose_pc = "call"
    /\ MainOff
    /\ CrossOff
    /\ ProgramsOff

ChooseState ==
    /\ choose_pc = "call"
    /\ state_index' = choose_index(probabilities, drawn_number)
    /\ choose_pc' = "done"
    /\ UNCHANGED <<probabilities, drawn_number, mainVars, crossVars, programVars>>

NextChoose == ChooseState

SpecChoose == InitChoose /\ [][NextChoose]_vars

\* ------------------------------------------------------------ three instances, one seed

\* Reset and gate calls made on each of the three instances.
MaxCrossCalls == 3

\* Runs of the test's loop.
MaxRuns == 2

\* The calls of _run_program1.
ProgramCalls ==
    {[op |-> "reset", args |-> <<>>],
     [op |-> "pauli_x", args |-> <<0>>],
     [op |-> "pauli_y", args |-> <<1>>],
     [op |-> "pauli_z", args |-> <<2>>],
     [op |-> "cz", args |-> <<0, 1>>],
     [op |-> "toffoli", args |-> <<0, 1, 2>>],
     [op |-> "s", args |-> <<0>>],
     [op |-> "swap", args |-> <<1, 2>>],
     [op |-> "t", args |-> <<1>>],
     [op |-> "cnot", args |-> <<0, 1>>],
     [op |-> "hadamard", args |-> <<1>>]}

\* The simulation after one of these calls (none of them panics).
AfterCall(x, call) ==
    IF call.op = "reset" THEN QuantumSimulation_reset(x)
    ELSE IF call.op \in OneQubitGates
    THEN apply_one_qubit_gate(x, call.op, call.args[1]).sim
    ELSE IF call.op \in TwoQubitGates
    THEN apply_two_qubit_gate(x, call.op, call.args[1], call.args[2]).sim
    ELSE QuantumSimulation_toffoli(x, call.args[1], call.args[2],
                                   call.args[3]).sim

\* QuantumSimulation::new(qubit_count, 0u64), three times.
InitCross ==
    /\ simulation012 = QuantumSimulation_new(TEST_QUBIT_COUNT)
    /\ simulation1 = QuantumSimulation_new(TEST_QUBIT_COUNT)
    /\ simulation02 = QuantumSimulation_new(TEST_QUBIT_COUNT)
    /\ measurements = <<>>
    /\ cross_pc = "program"
    /\ runs = 0
    /\ calls = 0
    /\ reset_in_run = FALSE
    /\ MainOff
    /\ ChooseOff
    /\ ProgramsOff

\* The same reset or gate call on each of the three instances.
CrossCall ==
    /\ cross_pc = "program"
    /\ calls < MaxCrossCalls
    /\ \E call \in ProgramCalls :
          /\ simulation012' = AfterCall(simulation012, call)
          /\ simulation1' = AfterCall(simulation1, call)
          /\ simulation02' = AfterCall(simulation02, call)
          /\ reset_in_run' = (reset_in_run \/ call.op = "reset")
    /\ calls' = calls + 1
    /\ UNCHANGED <<measurements, cross_pc, runs, mainVars, chooseVars,
                   programVars>>

\* measure_all(), measure(vec![1]) and measure(vec![0, 2]).  The generators
\* were seeded alike: two that have drawn equally often return the same value.
CrossMeasure ==
    /\ cross_pc = "program"
    /\ runs < MaxRuns
    /\ \E r012, r1, r02 \in Draws :
          /\ simulation012.rng = simulation1.rng => r012 = r1
          /\ simulation012.rng = simulation02.rng => r012 = r02
          /\ simulation1.rng = simulation02.rng => r1 = r02
          /\ LET m012 == measure_all(simulation012, r012)
                 m1 == measure(simulation1, <<1>>, r1)
                 m02 == measure(simulation02, <<0, 2>>, r02)
             IN  /\ simulation012' = m012.sim
                 /\ simulation1' = m1.sim
                 /\ simulation02' = m02.sim
                 /\ measurements' =
                       [measurements012 |-> m012.outcome,
                        measurements1 |-> m1.outcome,
                        measurements02 |-> m02.outcome]
    /\ cross_pc' = "measured"
    /\ runs' = runs + 1
    /\ UNCHANGED <<calls, reset_in_run, mainVars, chooseVars, programVars>>

\* The loop goes round.
CrossNextRun ==
    /\ cross_pc = "measured"
    /\ cross_pc' = "program"
    /\ reset_in_run' = FALSE
    /\ UNCHANGED <<simulation012, simulation1, simulation02, measurements,
                   runs, calls, mainVars, chooseVars, programVars>>

NextCross == CrossCall \/ CrossMeasure \/ CrossNextRun

SpecCross == InitCross /\ [][NextCross]_vars

\* ------------------------------------------------------------ programs on one instance

\* Calls that prepare the vector before a gate is applied twice.
MaxPrepare == 2

\* Runs of the loop of bell_state.rs.
MaxTrials == 2

\* QUBIT_COUNT of bell_state.rs.
BELL_QUBIT_COUNT == 2

CallOf(op, args, f) == [op |-> op, args |-> args, f |-> f]

GateCall(op, args) == CallOf(op, args, {})

\* pauli_x on qubits[j] for each position j of x, from j on, that holds true.
RECURSIVE PrepareBasis(_, _, _)
PrepareBasis(qubits, x, j) ==
    IF j > Len(x) THEN <<>>
    ELSE (IF x[j] THEN <<GateCall("pauli_x", <<qubits[j]>>)>> ELSE <<>>)
         \o PrepareBasis(qubits, x, j + 1)

Program(kind, qubit_count, calls_, mark, qubits, x, f) ==
    [kind |-> kind, qubit_count |-> qubit_count, calls |-> calls_,
     mark |-> mark, qubits |-> qubits, x |-> x, f |-> f]

\* The body of the loop of bell_state.rs: the instance is put into its ground
\* state, entangle_into_bell_state(simulation, 0, 1), measure_all().
BellProgram ==
    Program("bell", BELL_QUBIT_COUNT,
            <<GateCall("reset", <<>>), GateCall("hadamard", <<0>>),
              GateCall("cnot", <<0, 1>>), GateCall("measure_all", <<>>)>>,
            0, <<0, 1>>, <<>>, {})

\* The sequences of m different qubits of an instance of TEST_QUBIT_COUNT
\* qubits.
DistinctQubits(m) ==
    {qs \in [1..m -> 0..(TEST_QUBIT_COUNT - 1)] :
        \A j, l \in 1..m : j # l => qs[j] # qs[l]}

\* The qubits (control0, control1, target) set to the basis value x with
\* pauli_x, toffoli(control0, control1, target), measure_all().
ToffoliPrograms ==
    {Program("toffoli", TEST_QUBIT_COUNT,
             PrepareBasis(qs, x, 1)
                 \o <<GateCall("toffoli", qs), GateCall("measure_all", <<>>)>>,
             0, qs, x, {}) :
        qs \in DistinctQubits(3), x \in BoolArrays(3)}

\* The input qubits set to the basis value x with pauli_x,
\* apply_u_f(f, inputs, answer), measure(vec![answer]); qs is the inputs
\* followed by the answer qubit.
OraclePrograms ==
    UNION {
        {Program("oracle", TEST_QUBIT_COUNT,
                 PrepareBasis(qs, x, 1)
                     \o <<CallOf("apply_u_f", qs, f),
                          GateCall("measure", <<qs[N + 1]>>)>>,
                 0, qs, x, f) :
            qs \in DistinctQubits(N + 1), x \in BoolArrays(N),
            f \in SUBSET BoolArrays(N)} :
        N \in 1..MaxOracleInputs}

\* The gate calls of _run_program1, to prepare a vector.
PrepareCalls == {GateCall(c.op, c.args) : c \in ProgramCalls \ {[op |-> "reset", args |-> <<>>]}}

Preparations == UNION {[1..m -> PrepareCalls] : m \in 0..MaxPrepare}

\* pauli_x, pauli_z, hadamard and swap on every valid target.
DoubledCalls ==
    {GateCall(g, <<q>>) :
        g \in {"pauli_x", "pauli_z", "hadamard"}, q \in 0..(TEST_QUBIT_COUNT - 1)}
    \cup {GateCall("swap", qs) : qs \in DistinctQubits(2)}

\* A prepared vector, then the same gate twice.
TwicePrograms ==
    {Program("twice", TEST_QUBIT_COUNT, prep \o <<g, g>>, Len(prep) + 1,
             g.args, <<>>, {}) :
        prep \in Preparations, g \in DoubledCalls}

\* The three qubits set to the basis value x with pauli_x, at most one
\* hadamard, measure_all(), and then measure_all() again or measure(qs).
CertaintyPrograms ==
    {Program("certainty", TEST_QUBIT_COUNT,
             PrepareBasis(<<0, 1, 2>>, x, 1) \o h
                 \o <<GateCall("measure_all", <<>>), second>>,
             0, second.args, x, {}) :
        x \in BoolArrays(TEST_QUBIT_COUNT),
        h \in {<<>>} \cup {<<GateCall("hadamard", <<q>>)>> :
                              q \in 0..(TEST_QUBIT_COUNT - 1)},
        second \in {GateCall("measure_all", <<>>)}
                   \cup {GateCall("measure", qs) :
                            qs \in DistinctQubits(1) \cup DistinctQubits(2)}}

\* QUBIT_COUNT of superdense_coding.rs.
SUPERDENSE_QUBIT_COUNT == 2

\* send_and_receive(first_bit, second_bit) of superdense_coding.rs, on the
\* instance new() returned; x is <<first_bit, second_bit>>.
SuperdensePrograms ==
    {Program("superdense", SUPERDENSE_QUBIT_COUNT,
             <<GateCall("init_ground_state", <<>>),
               GateCall("hadamard", <<0>>), GateCall("cnot", <<0, 1>>)>>
                 \o (IF x[1] THEN <<GateCall("pauli_z", <<0>>)>> ELSE <<>>)
                 \o (IF x[2] THEN <<GateCall("pauli_x", <<0>>)>> ELSE <<>>)
                 \o <<GateCall("cnot", <<0, 1>>), GateCall("hadamard", <<0>>),
                      GateCall("measure_all", <<>>)>>,
             0, <<0, 1>>, x, {}) :
        x \in BoolArrays(2)}

\* The two qubits the 4-tuple of create_u_f stands for.
U_F_QUBIT_COUNT == 2

\* On an instance of simulation.rs: qubit 1 set to x[1] and qubit 0 to x[2]
\* with pauli_x, so that the amplitude 1 is entry x[1] x[2] of the tuple, then
\* apply_u_f(f, 0, 1).
ParityPrograms ==
    {Program("parity", U_F_QUBIT_COUNT,
             PrepareBasis(<<1, 0>>, x, 1) \o <<CallOf("apply_u_f", <<0, 1>>, f)>>,
             0, <<0, 1>>, x, f) :
        x \in BoolArrays(2), f \in SUBSET BoolArrays(1)}

\* On an instance of lib.rs: control and target set to the basis value x
\* with pauli_x, then cnot(control, target).
LibCnotPrograms ==
    {Program("lib_cnot", TEST_QUBIT_COUNT,
             PrepareBasis(qs, x, 1) \o <<GateCall("cnot", qs)>>,
             Len(PrepareBasis(qs, x, 1)) + 1, qs, x, {}) :
        qs \in DistinctQubits(2), x \in BoolArrays(2)}

\* The longest secret string of the Bernstein-Vazirani programs.
MaxSecret == 2

\* dot_product of bernstein_vazirani.rs: the exclusive or over i of
\* input_string[i] & secret_string[i].
dot_product(input_string, secret_string) ==
    Cardinality({i \in DOMAIN secret_string :
                    input_string[i] /\ secret_string[i]}) % 2 = 1

\* hadamard on input_qubits[j] for each j from j on.
RECURSIVE HadamardEach(_, _)
HadamardEach(input_qubits, j) ==
    IF j > Len(input_qubits) THEN <<>>
    ELSE <<GateCall("hadamard", <<input_qubits[j]>>)>>
         \o HadamardEach(input_qubits, j + 1)

\* One turn of the loop of run_bernstein_vazirani_algo for the secret
\* string x: reset(), then apply_bernstein_vazirani_algo on the input
\* qubits 0 .. N - 1 and the answer qubit N with f = dot_product(., x).
BernsteinVaziraniPrograms ==
    UNION {
        {LET input_qubits == [j \in 1..N |-> j - 1]
             f == {input \in BoolArrays(N) : dot_product(input, x)}
         IN  Program("bernstein_vazirani", N + 1,
                     <<GateCall("reset", <<>>), GateCall("pauli_x", <<N>>),
                       GateCall("hadamard", <<N>>)>>
                         \o HadamardEach(input_qubits, 1)
                         \o <<CallOf("apply_u_f", Append(input_qubits, N), f)>>
                         \o HadamardEach(input_qubits, 1)
                         \o <<GateCall("measure", input_qubits)>>,
                     0, input_qubits, x, f) :
            x \in BoolArrays(N)} :
        N \in 1..MaxSecret}

\* QUBIT_COUNT of teleportation.rs.
TELEPORT_QUBIT_COUNT == 3

\* src set to the basis value x[1] with pauli_x, teleport(simulation, src,
\* aux, dest) of teleportation.rs, measure(vec![dest]); qs is <<src, aux,
\* dest>>.  The two conditional calls of teleport read position args[2] of
\* measured_states.
TeleportPrograms ==
    {Program("teleport", TELEPORT_QUBIT_COUNT,
             <<GateCall("reset", <<>>)>>
                 \o PrepareBasis(<<qs[1]>>, x, 1)
                 \o <<GateCall("hadamard", <<qs[2]>>),
                      GateCall("cnot", <<qs[2], qs[3]>>),
                      GateCall("cnot", <<qs[1], qs[2]>>),
                      GateCall("hadamard", <<qs[1]>>),
                      GateCall("measure", <<qs[1], qs[2]>>),
                      GateCall("pauli_z_if", <<qs[3], 1>>),
                      GateCall("pauli_x_if", <<qs[3], 2>>),
                      GateCall("measure", <<qs[3]>>)>>,
             0, qs, x, {}) :
        qs \in DistinctQubits(3), x \in BoolArrays(1)}

Programs ==
    {BellProgram} \cup ToffoliPrograms \cup OraclePrograms \cup TwicePrograms
        \cup CertaintyPrograms \cup SuperdensePrograms \cup ParityPrograms
        \cup LibCnotPrograms \cup BernsteinVaziraniPrograms
        \cup TeleportPrograms

\* The file whose QuantumSimulation the program drives.
Simulator ==
    CASE program.kind \in {"superdense", "parity"} -> "simulation"
      [] program.kind = "lib_cnot" -> "lib"
      [] OTHER -> "state_vector_simulation"

\* new of lib.rs is new of simulation.rs without the rng.
InitPrograms ==
    /\ program \in Programs
    /\ program_pc = 1
    /\ program_sim = IF Simulator = "state_vector_simulation"
                     THEN QuantumSimulation_new(program.qubit_count)
                     ELSE simulation_new(program.qubit_count)
    /\ marked = program_sim
    /\ results = <<>>
    /\ earlier_results = <<>>
    /\ trials = 0
    /\ MainOff
    /\ ChooseOff
    /\ CrossOff

Running == program_pc <= Len(program.calls)

NextCall == program.calls[program_pc]

\* The call at program_pc has returned ret.
Step(ret) ==
    /\ program_sim' = ret.sim
    /\ program_pc' = program_pc + 1
    /\ marked' = IF program_pc = program.mark THEN program_sim ELSE marked
    /\ UNCHANGED <<program, trials, mainVars, chooseVars, crossVars>>

ProgramReset ==
    /\ Running
    /\ NextCall.op = "reset"
    /\ Step(Ok(QuantumSimulation_reset(program_sim)))
    /\ UNCHANGED <<results, earlier_results>>

ProgramOneQubitGate ==
    /\ Running
    /\ Simulator = "state_vector_simulation"
    /\ NextCall.op \in OneQubitGates
    /\ Step(apply_one_qubit_gate(program_sim, NextCall.op, NextCall.args[1]))
    /\ UNCHANGED <<results, earlier_results>>

ProgramTwoQubitGate ==
    /\ Running
    /\ Simulator = "state_vector_simulation"
    /\ NextCall.op \in TwoQubitGates
    /\ Step(apply_two_qubit_gate(program_sim, NextCall.op, NextCall.args[1],
                                 NextCall.args[2]))
    /\ UNCHANGED <<results, earlier_results>>

ProgramToffoli ==
    /\ Running
    /\ NextCall.op = "toffoli"
    /\ Step(QuantumSimulation_toffoli(program_sim, NextCall.args[1],
                                      NextCall.args[2], NextCall.args[3]))
    /\ UNCHANGED <<results, earlier_results>>

ProgramApplyUF ==
    /\ Running
    /\ Simulator = "state_vector_simulation"
    /\ NextCall.op = "apply_u_f"
    /\ Step(apply_u_f(program_sim, NextCall.f,
                      SubSeq(NextCall.args, 1, Len(NextCall.args) - 1),
                      NextCall.args[Len(NextCall.args)]))
    /\ UNCHANGED <<results, earlier_results>>

ProgramMeasureAll ==
    /\ Running
    /\ Simulator = "state_vector_simulation"
    /\ NextCall.op = "measure_all"
    /\ \E r \in Draws :
          LET ret == measure_all(program_sim, r)
          IN  /\ Step(ret)
              /\ results' = ret.outcome
              /\ earlier_results' = results

ProgramMeasure ==
    /\ Running
    /\ NextCall.op = "measure"
    /\ \E r \in Draws :
          LET ret == measure(program_sim, NextCall.args, r)
          IN  /\ Step(ret)
              /\ results' = ret.outcome
              /\ earlier_results' = results

\* if first_bit { pauli_z(dest) } and if second_bit { pauli_x(dest) } of
\* teleport: args is <<dest, the position in measured_states>>.
ProgramConditionalGate ==
    /\ Running
    /\ NextCall.op \in {"pauli_z_if", "pauli_x_if"}
    /\ LET name == IF NextCall.op = "pauli_z_if" THEN "pauli_z" ELSE "pauli_x"
       IN  Step(IF results[NextCall.args[2]]
                THEN apply_one_qubit_gate(program_sim, name, NextCall.args[1])
                ELSE Ok(program_sim))
    /\ UNCHANGED <<results, earlier_results>>

SimulationInitGroundState ==
    /\ Running
    /\ Simulator = "simulation"
    /\ NextCall.op = "init_ground_state"
    /\ Step(Ok(simulation_init_ground_state(program_sim)))
    /\ UNCHANGED <<results, earlier_results>>

SimulationOneQubitGate ==
    /\ Running
    /\ Simulator = "simulation"
    /\ NextCall.op \in OneQubitGates
    /\ Step(simulation_apply_one_qubit_gate(program_sim, NextCall.op,
                                            NextCall.args[1]))
    /\ UNCHANGED <<results, earlier_results>>

SimulationCnot ==
    /\ Running
    /\ Simulator = "simulation"
    /\ NextCall.op = "cnot"
    /\ Step(simulation_cnot(program_sim, NextCall.args[1], NextCall.args[2]))
    /\ UNCHANGED <<results, earlier_results>>

SimulationApplyUF ==
    /\ Running
    /\ Simulator = "simulation"
    /\ NextCall.op = "apply_u_f"
    /\ Step(simulation_apply_u_f(program_sim, NextCall.f, NextCall.args[1],
                                 NextCall.args[2]))
    /\ UNCHANGED <<results, earlier_results>>

SimulationMeasureAll ==
    /\ Running
    /\ Simulator = "simulation"
    /\ NextCall.op = "measure_all"
    /\ \E r \in Draws :
          LET ret == simulation_measure_all(program_sim, r)
          IN  /\ Step(ret)
              /\ results' = ret.outcome
              /\ earlier_results' = results

LibPauliX ==
    /\ Running
    /\ Simulator = "lib"
    /\ NextCall.op = "pauli_x"
    /\ Step(lib_pauli_x(program_sim, NextCall.args[1]))
    /\ UNCHANGED <<results, earlier_results>>

LibCnot ==
    /\ Running
    /\ Simulator = "lib"
    /\ NextCall.op = "cnot"
    /\ Step(lib_cnot(program_sim, NextCall.args[1], NextCall.args[2]))
    /\ UNCHANGED <<results, earlier_results>>

\* for _ in 0..RUN_COUNT of bell_state.rs goes round.
BellNextRun ==
    /\ program.kind = "bell"
    /\ ~Running
    /\ trials + 1 < MaxTrials
    /\ program_pc' = 1
    /\ trials' = trials + 1
    /\ results' = <<>>
    /\ earlier_results' = <<>>
    /\ UNCHANGED <<program, program_sim, marked, mainVars, chooseVars,
                   crossVars>>

NextPrograms ==
    \/ ProgramReset
    \/ ProgramOneQubitGate
    \/ ProgramTwoQubitGate
    \/ ProgramToffoli
    \/ ProgramApplyUF
    \/ ProgramMeasureAll
    \/ ProgramMeasure
    \/ ProgramConditionalGate
    \/ SimulationInitGroundState
    \/ SimulationOneQubitGate
    \/ SimulationCnot
    \/ SimulationApplyUF
    \/ SimulationMeasureAll
    \/ LibPauliX
    \/ LibCnot
    \/ BellNextRun

SpecPrograms == InitPrograms /\ [][NextPrograms]_vars

\* ------------------------------------------------------------ reading a state

\* Bit j of basis index i.
Bit(i, j) == (i \div Pow2(j)) % 2 = 1

\* |amplitude i|^2 of simulation x.
ProbabilityAt(x, i) == RMul(CNormSqr(x.amplitudes[i]), x.scale)

StateCount(x) == Pow2(x.qubit_count)

\* The sum of |amplitude|^2 over the whole vector of x.
TotalProbability(x) ==
    RSum([i \in DOMAIN x.amplitudes |-> ProbabilityAt(x, i)], StateCount(x))

\* Basis index i agrees with outcome out on the qubits qs.
Agrees(i, qs, out) == \A j \in 1..Len(qs) : Bit(i, qs[j]) = out[j]

\* The sum of |amplitude|^2 of x over the basis indices that agree with out
\* on qs.
AgreeingProbability(x, qs, out) ==
    RSum([i \in DOMAIN x.amplitudes |->
            IF Agrees(i, qs, out) THEN ProbabilityAt(x, i) ELSE RInt(0)],
         StateCount(x))

Returned(op) == status = "returned" /\ last.op = op

GateOps ==
    OneQubitGates \cup TwoQubitGates \cup {"toffoli"}

NamesInvalidQubit == \E j \in 1..Len(last.args) : last.args[j] >= last.before.qubit_count

\* ------------------------------------------------------------ claims on _choose_state

\* p_0 + ... + p_i
Cumulative(i) == RSum(probabilities, i + 1)

\* The indices whose cumulative sum reaches the drawn number.
Reaching == {i \in DOMAIN probabilities : RLeq(drawn_number, Cumulative(i))}

\* C2: _choose_state returns the smallest basis index whose cumulative sum
\* p_0 + ... + p_i is >= r, and the last index 2^n - 1 when no cumulative sum
\* reaches r.
C2_InverseCdfSampling ==
    choose_pc = "done" =>
        state_index =
            IF Reaching # {}
            THEN CHOOSE i \in Reaching : \A m \in Reaching : i <= m
            ELSE AmpLen(probabilities) - 1

\* ------------------------------------------------------------ claims on three instances

\* The values of the run agree on the qubits measured twice.
MeasurementsAgree ==
    /\ measurements.measurements1[1] = measurements.measurements012[2]
    /\ measurements.measurements02[1] = measurements.measurements012[1]
    /\ measurements.measurements02[2] = measurements.measurements012[3]

\* C1 as stated: for three instances built with the same seed and driven
\* through the same reset and gate calls, measure_all() on the first,
\* measure([1]) on the second and measure([0, 2]) on the third agree on
\* every qubit measured twice, in every run on the same instances.
C1_MeasurementsAgreeEveryRun ==
    cross_pc = "measured" => MeasurementsAgree

\* C1, amended: the three agree in every run in which reset() was among the
\* calls since the last measurement, as it is in _run_program1.
C1_MeasurementsAgreeAfterReset ==
    (cross_pc = "measured" /\ reset_in_run) => MeasurementsAgree

\* C1's case: the second run called reset() and then put qubit 1 into
\* superposition; the three measurements found it 1 and left the first and
\* the third instance with different vectors.
C1_Witness ==
    /\ cross_pc = "measured"
    /\ reset_in_run
    /\ runs = 2
    /\ measurements.measurements1[1]
    /\ simulation012.amplitudes # simulation02.amplitudes

\* ------------------------------------------------------------ claims on one instance

\* C3: sampling never selects an impossible outcome: the basis index that
\* measure_all() and measure() choose has a non-zero amplitude in the vector
\* the call found, for every draw r in [0, 1), and so the sum of squared
\* magnitudes that measure() divides by is not zero.
C3_SampledIndexPossible ==
    (Returned("measure_all") \/ Returned("measure")) =>
        /\ ~CIsZero(last.before.amplitudes[last.index])
        /\ Returned("measure") =>
              ~RIsZero(AgreeingProbability(last.before, last.args, last.outcome))

\* C4: measure_all() returns exactly n booleans, entry j being bit j of the
\* sampled index, and leaves the amplitude vector exactly 1 at the sampled
\* index and 0 at every other index.
C4_FullMeasurementCollapse ==
    Returned("measure_all") =>
        /\ last.index = choose_state(last.before, last.random_number)
        /\ Len(last.outcome) = sim.qubit_count
        /\ \A j \in 0..(sim.qubit_count - 1) :
              last.outcome[j + 1] = Bit(last.index, j)
        /\ DOMAIN sim.amplitudes = 0..(StateCount(sim) - 1)
        /\ sim.scale = RInt(1)
        /\ \A i \in DOMAIN sim.amplitudes :
              sim.amplitudes[i] = IF i = last.index THEN COne ELSE CZero

\* C4's case: a full measurement of two or more qubits that found a
\* superposition and sampled an index other than 0.
C4_Witness ==
    /\ Returned("measure_all")
    /\ sim.qubit_count >= 2
    /\ last.index > 0
    /\ \E i \in DOMAIN sim.amplitudes :
          i # last.index /\ ~CIsZero(last.before.amplitudes[i])

\* C5: measure(qs) with valid indices returns one boolean per entry of qs, in
\* the caller's order, each the bit of the sampled index at that qubit;
\* afterwards every basis index that differs from the outcome on qs has
\* amplitude 0 and every other amplitude is its previous value times the one
\* factor 1/sqrt(S), S being the sum of squared magnitudes of the amplitudes
\* that survive (as f64 computes that product: NaN when S is 0.0 or NaN).
C5_PartialMeasurementCollapse ==
    Returned("measure") =>
        LET S == AgreeingProbability(last.before, last.args, last.outcome)
        IN  /\ last.index = choose_state(last.before, last.random_number)
            /\ Len(last.outcome) = Len(last.args)
            /\ \A j \in 1..Len(last.args) :
                  last.outcome[j] = Bit(last.index, last.args[j])
            /\ DOMAIN sim.amplitudes = DOMAIN last.before.amplitudes
            /\ \A i \in DOMAIN sim.amplitudes :
                  IF ~Agrees(i, last.args, last.outcome)
                  THEN sim.amplitudes[i] = CZero
                  ELSE IF S.nan \/ RIsZero(S)
                  THEN sim.amplitudes[i].nan
                  ELSE /\ sim.amplitudes[i] = last.before.amplitudes[i]
                       /\ RMul(sim.scale, S) = last.before.scale

\* C5's case: a measurement of two qubits that zeroed a non-zero amplitude
\* and rescaled the ones that survive.
C5_Witness ==
    /\ Returned("measure")
    /\ Len(last.args) = 2
    /\ last.args[1] > last.args[2]
    /\ sim.scale # last.before.scale
    /\ \E i \in DOMAIN sim.amplitudes :
          CIsZero(sim.amplitudes[i]) /\ ~CIsZero(last.before.amplitudes[i])
    /\ \E i \in DOMAIN sim.amplitudes : ~CIsZero(sim.amplitudes[i])

\* C6: in every state reachable from construction by reset, gate, oracle,
\* measure_all and measure calls with valid arguments, the sum of |amplitude|^2 over the whole
\* vector equals 1.
C6_Normalized == valid => TotalProbability(sim) = RInt(1)

\* C7: every one-, two- and three-qubit gate call and every measure(qs) call
\* that names a qubit index >= n fails with the invalid-qubit-index error,
\* and leaves the amplitude vector and the random source as they were.
C7_InvalidIndexRejected ==
    (last.op \in GateOps \cup {"measure"} /\ NamesInvalidQubit) =>
        /\ status = "panicked"
        /\ last.err = "InvalidQubitIndex"
        /\ sim = last.before

\* C7's case: a measure call whose second qubit index is the invalid one has
\* panicked on an instance that is no longer in its ground state.
C7_Witness ==
    /\ status = "panicked"
    /\ last.op = "measure"
    /\ Len(last.args) = 2
    /\ last.args[1] < sim.qubit_count
    /\ last.args[2] >= sim.qubit_count
    /\ ~CIsZero(sim.amplitudes[1])

\* C8: a two-qubit gate call (cnot, cz, swap) whose two indices are equal, or
\* a toffoli call in which two of the three indices are equal, fails with the
\* invalid-qubit-index error and does not modify the amplitude vector.
C8_DuplicateTargetsRejected ==
    (/\ last.op \in TwoQubitGates \cup {"toffoli"}
     /\ \E j, m \in 1..Len(last.args) : j # m /\ last.args[j] = last.args[m]) =>
        /\ last.err = "InvalidQubitIndex"
        /\ sim.amplitudes = last.before.amplitudes

\* C9: apply_u_f called with an input-qubit or answer-qubit index >= n fails
\* with the invalid-qubit-index error, for every function f.
C9_OracleIndexRejected ==
    (last.op = "apply_u_f" /\ NamesInvalidQubit) =>
        last.err = "InvalidQubitIndex"

\* C10: apply_u_f called with an answer qubit that is also one of the input
\* qubits is rejected and leaves the amplitude vector unchanged.
C10_OracleOverlapRejected ==
    (/\ last.op = "apply_u_f"
     /\ \E j \in 1..(Len(last.args) - 1) :
           last.args[j] = last.args[Len(last.args)]) =>
        /\ last.err # "ok"
        /\ sim.amplitudes = last.before.amplitudes

\* C11: when measure(qs) finds the sum of squared magnitudes of the
\* amplitudes that survive to be exactly zero, the call ends in a failure: it
\* does not return an outcome.
C11_ZeroSumNotSwallowed ==
    Returned("measure") =>
        ~RIsZero(surviving_probability(last.before, last.args, last.outcome, 0))

\* C12: QuantumSimulation::new(n, seed) produces an instance only for
\* 1 <= n <= 32; n = 0 and n > 32 are rejected before an instance is
\* produced, and every instance produced starts in the ground state.
C12_ConstructionValidated ==
    last.op = "new" =>
        IF 1 <= last.args[1] /\ last.args[1] <= 32
        THEN /\ status = "idle"
             /\ sim.qubit_count = last.args[1]
             /\ DOMAIN sim.amplitudes = 0..(StateCount(sim) - 1)
             /\ sim.scale = RInt(1)
             /\ \A i \in DOMAIN sim.amplitudes :
                   sim.amplitudes[i] = IF i = 0 THEN COne ELSE CZero
        ELSE status = "panicked"

\* C13: the random source advances by exactly one draw in each measure_all()
\* call and each measure() call, and is left unchanged by reset() and by
\* every gate call (pauli_x/y/z, hadamard, s, t, cnot, cz, swap, toffoli,
\* apply_u_f).
C13_RandomSourceDiscipline ==
    /\ (Returned("measure_all") \/ Returned("measure")) =>
          sim.rng = last.before.rng + 1
    /\ last.op \in {"reset", "apply_u_f"} \cup GateOps =>
          sim.rng = last.before.rng

\* C13's case: the second measurement on an instance of three qubits has
\* returned.
C13_Witness ==
    /\ Returned("measure_all")
    /\ sim.qubit_count = TEST_QUBIT_COUNT
    /\ last.before.rng = 1

\* C14: reset() sets the amplitude vector to the ground state (1 at index 0,
\* 0 elsewhere, length 2^n), leaves the qubit count unchanged and neither
\* reseeds nor advances the random source.
C14_ResetFrame ==
    last.op = "reset" =>
        /\ status = "returned"
        /\ sim.qubit_count = last.before.qubit_count
        /\ DOMAIN sim.amplitudes = 0..(Pow2(sim.qubit_count) - 1)
        /\ sim.scale = RInt(1)
        /\ \A i \in DOMAIN sim.amplitudes :
              sim.amplitudes[i] = IF i = 0 THEN COne ELSE CZero
        /\ sim.rng = last.before.rng

\* C14's case: reset() on an instance of three qubits that has drawn once.
C14_Witness ==
    /\ Returned("reset")
    /\ sim.qubit_count = TEST_QUBIT_COUNT
    /\ last.before.rng = 1

\* C15: measure_all() on an instance in the ground state (freshly built or
\* freshly reset, no gate applied) returns all-false, for every qubit count
\* and every draw.
C15_GroundMeasuresFalse ==
    (/\ Returned("measure_all")
     /\ last.before.scale = RInt(1)
     /\ \A i \in DOMAIN last.before.amplitudes :
           last.before.amplitudes[i] = IF i = 0 THEN COne ELSE CZero) =>
        /\ Len(last.outcome) = sim.qubit_count
        /\ \A j \in 1..Len(last.outcome) : last.outcome[j] = FALSE

\* C15's case: measure_all() with the largest draw on three qubits that a
\* reset() has just put into the ground state.
C15_Witness ==
    /\ Returned("measure_all")
    /\ sim.qubit_count = TEST_QUBIT_COUNT
    /\ ops = 2
    /\ last.before = QuantumSimulation_reset(last.before)
    /\ last.random_number = RFrac(RDen - 1, RDen)

\* The input qubits and the answer qubit of the apply_u_f call in last.
OracleInputs == SubSeq(last.args, 1, Len(last.args) - 1)

OracleAnswer == last.args[Len(last.args)]

\* The call named qubits below qubit_count and an answer qubit that is not
\* an input qubit.
OracleDisjointInRange ==
    /\ last.op = "apply_u_f"
    /\ \A j \in 1..Len(last.args) : last.args[j] < last.before.qubit_count
    /\ \A j \in 1..Len(OracleInputs) : OracleInputs[j] # OracleAnswer

\* Basis index i with f(input bits of i) XOR-ed into the answer bit.
OracleImage(i) ==
    LET x == [j \in 1..Len(OracleInputs) |-> Bit(i, OracleInputs[j])]
    IN  IF x \notin last.f THEN i
        ELSE IF Bit(i, OracleAnswer) THEN i - Pow2(OracleAnswer)
        ELSE i + Pow2(OracleAnswer)

\* C20: for every f and disjoint in-range input and answer qubits, apply_u_f
\* moves the amplitude of each basis index i to the index obtained from i by
\* XOR-ing f(input bits of i) into the answer bit; the new vector is a
\* permutation of the old one.
C20_OraclePermutes ==
    OracleDisjointInRange =>
        /\ status = "returned"
        /\ DOMAIN sim.amplitudes = DOMAIN last.before.amplitudes
        /\ sim.scale = last.before.scale
        /\ \A i \in DOMAIN sim.amplitudes :
              /\ OracleImage(i) \in DOMAIN sim.amplitudes
              /\ OracleImage(OracleImage(i)) = i
              /\ sim.amplitudes[OracleImage(i)] = last.before.amplitudes[i]

\* C20's case: on three qubits an oracle whose f is true for one input and
\* false for the other has exchanged two different amplitudes and left
\* another non-zero amplitude where it was.
C20_Witness ==
    /\ OracleDisjointInRange
    /\ status = "returned"
    /\ sim.qubit_count = TEST_QUBIT_COUNT
    /\ \E i \in DOMAIN sim.amplitudes :
          /\ OracleImage(i) # i
          /\ sim.amplitudes[i] # last.before.amplitudes[i]
    /\ \E i \in DOMAIN sim.amplitudes :
          /\ OracleImage(i) = i
          /\ ~CIsZero(sim.amplitudes[i])

\* ------------------------------------------------------------ claims on programs

C17_BellCorrelated ==
    (program.kind = "bell" /\ ~Running) =>
        /\ Len(results) = 2
        /\ results[1] = results[2]

\* C17's case: the second run of the loop measured 11.
C17_Witness ==
    /\ program.kind = "bell"
    /\ ~Running
    /\ trials = 1
    /\ results = <<TRUE, TRUE>>

\* C18: for every basis state of (control0, control1, target) prepared from
\* ground with pauli_x, toffoli(control0, control1, target) followed by
\* measure_all() yields, for every draw, the same controls and the target
\* flipped iff both controls are 1.
C18_ToffoliTruthTable ==
    (program.kind = "toffoli" /\ ~Running) =>
        /\ results[program.qubits[1] + 1] = program.x[1]
        /\ results[program.qubits[2] + 1] = program.x[2]
        /\ results[program.qubits[3] + 1] =
              (program.x[3] # (program.x[1] /\ program.x[2]))

\* C19: with the input qubits prepared in the basis value x, the answer
\* qubit at 0 and input and answer qubits disjoint, apply_u_f(f, inputs,
\* answer) followed by measure([answer]) returns [f(x)] for every draw.
C19_OracleOnDefiniteInputs ==
    (program.kind = "oracle" /\ ~Running) =>
        results = <<program.x \in program.f>>

\* ------------------------------------------------------------ claims on the gate loops

\* Basis index i with bit j inverted.
FlipBit(i, j) == IF Bit(i, j) THEN i - Pow2(j) ELSE i + Pow2(j)

\* C21: cnot(control, target) with distinct in-range indices moves the
\* amplitude of every basis index whose control bit is 1 to the index with
\* the target bit flipped, and leaves the amplitude of every basis index
\* whose control bit is 0 where it was.
C21_CnotDirection ==
    (Returned("cnot") /\ ValidArguments(last.before, "cnot", last.args)) =>
        /\ last.err = "ok"
        /\ \A i \in DOMAIN last.before.amplitudes :
              IF Bit(i, last.args[1])
              THEN sim.amplitudes[FlipBit(i, last.args[2])]
                       = last.before.amplitudes[i]
              ELSE sim.amplitudes[i] = last.before.amplitudes[i]

\* cnot on three qubits found amplitude on both sides of the control bit and
\* moved the one with the control bit set.
C21_Witness ==
    /\ Returned("cnot")
    /\ ValidArguments(last.before, "cnot", last.args)
    /\ sim.qubit_count = TEST_QUBIT_COUNT
    /\ \E i, m \in DOMAIN last.before.amplitudes :
          /\ Bit(i, last.args[1])
          /\ ~CIsZero(last.before.amplitudes[i])
          /\ sim.amplitudes[i] # last.before.amplitudes[i]
          /\ ~Bit(m, last.args[1])
          /\ ~CIsZero(last.before.amplitudes[m])

\* ------------------------------------------------------------ claims on the shape of the vector

\* QuantumSimulation::new returned an instance.
Constructed == ~(last.op = "new" /\ last.err # "ok")

\* C25: after construction with qubit count n and after any sequence of
\* reset, gate, oracle, measure_all and measure calls, the amplitude vector
\* has exactly 2^n entries, at the indices 0 .. 2^n - 1, and the qubit count
\* is the one the call found.
C25_ShapeInvariant ==
    Constructed =>
        /\ DOMAIN sim.amplitudes = 0..(Pow2(sim.qubit_count) - 1)
        /\ AmpLen(sim.amplitudes) = Pow2(sim.qubit_count)
        /\ sim.qubit_count = last.before.qubit_count

\* The second of two calls on a three-qubit instance was a measurement, and
\* it returned.
C25_Witness ==
    /\ Constructed
    /\ ops = MaxOps
    /\ last.op \in {"measure", "measure_all"}
    /\ last.err = "ok"
    /\ sim.qubit_count = TEST_QUBIT_COUNT
    /\ AmpLen(sim.amplitudes) = Pow2(TEST_QUBIT_COUNT)

\* ------------------------------------------------------------ claims on the groups of a gate call

\* The basis indices of x whose bits at the targets are all zero.
Representatives(x, targets) ==
    {i \in DOMAIN x.amplitudes : \A j \in 1..Len(targets) : ~Bit(i, targets[j])}

\* The index of the group of rep at position t of the tuple: bit j - 1 of t
\* sets the bit of targets[j].
TupleMember(rep, targets, t) ==
    rep + (IF Len(targets) >= 1 /\ Bit(t, 0) THEN Pow2(targets[1]) ELSE 0)
        + (IF Len(targets) >= 2 /\ Bit(t, 1) THEN Pow2(targets[2]) ELSE 0)
        + (IF Len(targets) >= 3 /\ Bit(t, 2) THEN Pow2(targets[3]) ELSE 0)

Group(rep, targets) ==
    {TupleMember(rep, targets, t) : t \in 0..(Pow2(Len(targets)) - 1)}

\* The gate function named name on a tuple of 2, 4 or 8 amplitudes.
GateValue(name, tuple) ==
    CASE name \in OneQubitGates -> one_qubit_gate(name, tuple[1], tuple[2])
      [] name \in TwoQubitGates ->
             two_qubit_gate(name, tuple[1], tuple[2], tuple[3], tuple[4])
      [] name = "toffoli" ->
             gate_toffoli(tuple[1], tuple[2], tuple[3], tuple[4],
                          tuple[5], tuple[6], tuple[7], tuple[8])

AllQubits(x) == [j \in 1..x.qubit_count |-> j - 1]

\* C27: from the same amplitude vector and the same random draw,
\* measure([0, 1, ..., n - 1]) returns the same outcome sequence as
\* measure_all(), and the two resulting amplitude vectors have the same
\* squared magnitude at every index.
C27_MeasureMatchesMeasureAll ==
    Returned("measure_all") =>
        LET other == measure(last.before, AllQubits(last.before),
                             last.random_number)
        IN  /\ other.err = "ok"
            /\ other.outcome = last.outcome
            /\ \A i \in DOMAIN sim.amplitudes :
                  ProbabilityAt(other.sim, i) = ProbabilityAt(sim, i)

\* ------------------------------------------------------------ claims on the drivers and the earlier simulators

Finished(kind) == program.kind = kind /\ ~Running

LastCall == program.calls[Len(program.calls)]

\* C22: if measure_all() returned outcome o, a second measure_all() issued
\* with no gate or reset in between returns the same outcome o for every
\* random draw, 0 included, and measure(qs) returns the bits of o at qs.
C22_CertaintyAfterMeasureAll ==
    Finished("certainty") =>
        results =
            IF LastCall.op = "measure_all" THEN earlier_results
            ELSE [j \in 1..Len(LastCall.args) |->
                     earlier_results[LastCall.args[j] + 1]]

\* C23: for each of the four messages (first_bit, second_bit), the sequence
\* init_ground_state, hadamard(0), cnot(0, 1), pauli_z(0) if first_bit,
\* pauli_x(0) if second_bit, cnot(0, 1), hadamard(0), measure_all() on a
\* 2-qubit instance returns measured[0] = first_bit and measured[1] =
\* second_bit, for every random draw.
C23_SuperdenseRoundTrip ==
    Finished("superdense") => results = program.x

\* 1 for true and 0 for false.
BitOf(b) == IF b THEN 1 ELSE 0

\* C26: for each of the four boolean functions f of one bit, the 4-tuple
\* transform create_u_f(f) returns sends the basis state (x, y), entry xy of
\* the tuple, to (x, f(x) XOR y): the pair of entries with x = 0 is exchanged
\* iff f(false) is true and the pair with x = 1 iff f(true) is true.
C26_ParityOracle ==
    Finished("parity") =>
        LET x == program.x[1]
            y == program.x[2]
            fx == <<x>> \in program.f
        IN  program_sim.amplitudes
                = [i \in 0..(Pow2(U_F_QUBIT_COUNT) - 1) |->
                      IF i = 2 * BitOf(x) + BitOf(fx # y) THEN COne ELSE CZero]

\* C28: cnot(control_qubit_number, target_qubit_number) of lib.rs leaves, for
\* every pair of distinct in-range indices, the vector that cnot of
\* state_vector_simulation.rs leaves from the same vector with the same
\* arguments.
C28_LibCnotAgrees ==
    Finished("lib_cnot") =>
        program_sim.amplitudes
            = QuantumSimulation_cnot(marked, LastCall.args[1],
                                     LastCall.args[2]).sim.amplitudes

\* C29: for every secret string s of length N and f(x) = s.x, the
\* Bernstein-Vazirani driver (pauli_x and hadamard on the answer qubit,
\* hadamard on every input qubit, apply_u_f(f), hadamard on every input
\* qubit, measure(input qubits)) run from the ground state returns exactly
\* s, for every random draw.
C29_BernsteinVazirani ==
    Finished("bernstein_vazirani") => results = program.x

\* C30: on a 3-qubit instance with aux and dest in the ground state and src
\* prepared in basis value b, teleport(src, aux, dest) leaves dest such that
\* measure([dest]) returns [b], for every outcome of the intermediate
\* measurement and every random draw.
C30_Teleportation ==
    Finished("teleport") => results = program.x

====
